---- MODULE Spec2Model ----
(***************************************************************************)
(* Model of the sonicware-infra CDK application.                           *)
(*                                                                         *)
(*   bin/sonicware-infra.ts       builds the props and instantiates the    *)
(*                                stack                                    *)
(*   lib/sonicware-infra-stack.ts SonicwareInfraStack.constructor, which   *)
(*                                declares the constructs of the site one  *)
(*                                statement after the other                *)
(*                                                                         *)
(* The constructor is modelled statement by statement: pc is the position  *)
(* in the constructor, children the constructs added to the stack so far   *)
(* (in creation order), viewerCertificate the one local that is not a      *)
(* construct.  Host names and identifiers are strings, as in the source.   *)
(***************************************************************************)
EXTENDS Naturals, Sequences, FiniteSets, TLC

VARIABLES props, pc, children, viewerCertificate, call1, call2

vars == <<props, pc, children, viewerCertificate, call1, call2>>

stackVars == <<props, pc, children, viewerCertificate>>

callVars == <<call1, call2>>

(***************************************************************************)
(* Bounds of the model.                                                    *)
(***************************************************************************)
\* longest prefix / role handed to identifyResource in SpecIdentify
MaxLen == 3

\* characters of the prefixes and roles of SpecIdentify
Alphabet == {"a", "-"}

\* resource prefixes the stack is instantiated with
Prefixes == {"cdk-web-static", "p"}

\* domain names the stack is instantiated with
Domains == {"sonicware.pro", "example.org", "www.example.org"}

RECURSIVE StringsUpTo(_)
StringsUpTo(n) ==
  IF n = 0 THEN {""}
  ELSE LET shorter == StringsUpTo(n - 1)
       IN  shorter \cup {s \o c : s \in shorter, c \in Alphabet}

(***************************************************************************)
(* lib/config-util: identifyResource.  The module is imported by both      *)
(* source files but is not among them; it is modelled as the join of       *)
(* prefix and role the specification describes, rejecting empty input.     *)
(***************************************************************************)
Separator == "-"

InvalidInputError == [error |-> "InvalidInputError", id |-> ""]

Identifier(id) == [error |-> "none", id |-> id]

identifyResource(prefix, role) ==
  IF prefix = "" \/ role = ""
  THEN InvalidInputError
  ELSE Identifier(prefix \o Separator \o role)

(***************************************************************************)
(* bin/sonicware-infra.ts                                                  *)
(***************************************************************************)
stackId == "SonicwareInfraStack"

SonicwareProps(prefix, zoneName, domain, www) ==
  [ resourcePrefix |-> prefix,
    hostedZoneName |-> zoneName,
    domainName     |-> domain,
    includeWWW     |-> www,
    siteSourcePath |-> "../dist",
    staticSiteBucketNameOutputId     |-> identifyResource(prefix, "bucket-name").id,
    staticSiteDistributionIdOutputId |-> identifyResource(prefix, "distribution-id").id ]

(***************************************************************************)
(* lib/sonicware-infra-stack.ts: locals of the constructor                 *)
(***************************************************************************)
siteDomain == props.domainName

fullSiteDomain == "www." \o siteDomain

Construct(type, id, config) == [type |-> type, id |-> id, config |-> config]

zoneId == identifyResource(props.resourcePrefix, "hosted-zone").id

oaiId == identifyResource(props.resourcePrefix, "cloudfront-OAI").id

bucketId == identifyResource(props.resourcePrefix, "site-bucket").id

certificateId == identifyResource(props.resourcePrefix, "site-certificate").id

distributionId == identifyResource(props.resourcePrefix, "site-distribution").id

NoViewerCertificate == [set |-> FALSE]

Step(from, to, construct) ==
  /\ pc = from
  /\ pc' = to
  /\ children' = Append(children, construct)
  /\ UNCHANGED <<props, viewerCertificate, callVars>>

(***************************************************************************)
(* The statements of the constructor, in order.                            *)
(***************************************************************************)
LookupHostedZone ==
  Step("zone", "oai",
       Construct("HostedZone", zoneId, [domainName |-> props.hostedZoneName]))

CreateOriginAccessIdentity ==
  Step("oai", "bucket",
       Construct("OriginAccessIdentity", oaiId,
                 [comment |-> "OAI for " \o stackId]))

CreateBucket ==
  Step("bucket", "policy",
       Construct("Bucket", bucketId,
                 [ bucketName           |-> siteDomain,
                   websiteIndexDocument |-> "index.html",
                   websiteErrorDocument |-> "error.html",
                   publicReadAccess     |-> FALSE,
                   blockPublicAccess    |-> "BLOCK_ALL",
                   removalPolicy        |-> "DESTROY",
                   autoDeleteObjects    |-> TRUE,
                   policy               |-> <<>> ]))

IndexOf(id) == CHOOSE i \in 1..Len(children) : children[i].id = id

AddToResourcePolicy ==
  /\ pc = "policy"
  /\ pc' = "bucketOutput"
  /\ LET i == IndexOf(bucketId)
         statement == [ actions    |-> <<"s3:GetObject">>,
                        resources  |-> <<[arnForObjects |-> bucketId, key |-> "*"]>>,
                        principals |-> <<[canonicalUserOf |-> oaiId]>> ]
     IN  children' = [children EXCEPT ![i].config.policy = Append(@, statement)]
  /\ UNCHANGED <<props, viewerCertificate, callVars>>

OutputBucketName ==
  Step("bucketOutput", "certificate",
       Construct("CfnOutput", props.staticSiteBucketNameOutputId,
                 [ value      |-> [ref |-> bucketId, attr |-> "bucketName"],
                   exportName |-> props.staticSiteBucketNameOutputId ]))

subjectAlternativeNames_NoSan == <<>>

subjectAlternativeNames ==
  IF props.includeWWW THEN <<fullSiteDomain>> ELSE <<>>

CreateCertificate ==
  Step("certificate", "viewerCertificate",
       Construct("DnsValidatedCertificate", certificateId,
                 [ domainName              |-> siteDomain,
                   hostedZone              |-> zoneId,
                   region                  |-> "us-east-1",
                   subjectAlternativeNames |-> subjectAlternativeNames ]))

aliases ==
  IF props.includeWWW THEN <<siteDomain, fullSiteDomain>> ELSE <<siteDomain>>

CreateViewerCertificate ==
  /\ pc = "viewerCertificate"
  /\ pc' = "distribution"
  /\ viewerCertificate' =
       [ set            |-> TRUE,
         certificateArn |-> [ref |-> certificateId, attr |-> "certificateArn"],
         sslMethod      |-> "SNI",
         securityPolicy |-> "TLS_V1_2_2021",
         aliases        |-> aliases ]
  /\ UNCHANGED <<props, children, callVars>>

CreateDistribution ==
  Step("distribution", "distributionOutput",
       Construct("CloudFrontWebDistribution", distributionId,
                 [ viewerCertificate |-> viewerCertificate,
                   originConfigs |->
                     << [ s3OriginSource |->
                            [ s3BucketSource       |-> bucketId,
                              originAccessIdentity |-> oaiId ],
                          behaviors |->
                            << [ isDefaultBehavior |-> TRUE,
                                 compress          |-> TRUE,
                                 allowedMethods    |-> "GET_HEAD_OPTIONS" ] >> ] >>,
                   errorConfigurations |->
                     << [ errorCode |-> 403, errorCachingMinTtl |-> 10,
                          responseCode |-> 200, responsePagePath |-> "/index.html" ],
                        [ errorCode |-> 400, errorCachingMinTtl |-> 10,
                          responseCode |-> 200, responsePagePath |-> "/index.html" ] >> ]))

OutputDistributionId ==
  Step("distributionOutput", "record01",
       Construct("CfnOutput", props.staticSiteDistributionIdOutputId,
                 [ value      |-> [ref |-> distributionId, attr |-> "distributionId"],
                   exportName |-> props.staticSiteDistributionIdOutputId ]))

ARecord(role, recordName) ==
  Construct("ARecord", identifyResource(props.resourcePrefix, role).id,
            [ recordName |-> recordName,
              target     |-> [cloudFrontTarget |-> distributionId],
              zone       |-> zoneId ])

CreateAliasRecord01 ==
  Step("record01", "record02", ARecord("site-alias-record-01", siteDomain))

CreateAliasRecord02_Always ==
  Step("record02", "done", ARecord("site-alias-record-02", fullSiteDomain))

CreateAliasRecord02 ==
  /\ pc = "record02"
  /\ pc' = "done"
  /\ children' = IF props.includeWWW
                 THEN Append(children, ARecord("site-alias-record-02", fullSiteDomain))
                 ELSE children
  /\ UNCHANGED <<props, viewerCertificate, callVars>>

(***************************************************************************)
(* Calls of identifyResource on arbitrary arguments.                       *)
(***************************************************************************)
Identify1 ==
  /\ ~call1.called
  /\ call1' = [call1 EXCEPT !.called = TRUE,
                            !.result = identifyResource(call1.prefix, call1.role)]
  /\ UNCHANGED <<stackVars, call2>>

Identify2 ==
  /\ ~call2.called
  /\ call2' = [call2 EXCEPT !.called = TRUE,
                            !.result = identifyResource(call2.prefix, call2.role)]
  /\ UNCHANGED <<stackVars, call1>>

(***************************************************************************)
(* Specifications.                                                         *)
(***************************************************************************)
NoCall == [prefix |-> "a", role |-> "a", called |-> FALSE, result |-> Identifier("")]

Init ==
  /\ \E prefix \in Prefixes, zoneName \in Domains, domain \in Domains, www \in BOOLEAN :
       props = SonicwareProps(prefix, zoneName, domain, www)
  /\ pc = "zone"
  /\ children = <<>>
  /\ viewerCertificate = NoViewerCertificate
  /\ call1 = NoCall
  /\ call2 = NoCall

Next ==
  \/ LookupHostedZone
  \/ CreateOriginAccessIdentity
  \/ CreateBucket
  \/ AddToResourcePolicy
  \/ OutputBucketName
  \/ CreateCertificate
  \/ CreateViewerCertificate
  \/ CreateDistribution
  \/ OutputDistributionId
  \/ CreateAliasRecord01
  \/ CreateAliasRecord02

Spec == Init /\ [][Next]_vars

InitIdentify ==
  /\ props = SonicwareProps("cdk-web-static", "sonicware.pro", "sonicware.pro", TRUE)
  /\ pc = "zone"
  /\ children = <<>>
  /\ viewerCertificate = NoViewerCertificate
  /\ \E p1 \in StringsUpTo(MaxLen), r1 \in StringsUpTo(MaxLen) :
       call1 = [prefix |-> p1, role |-> r1, called |-> FALSE, result |-> Identifier("")]
  /\ \E p2 \in StringsUpTo(MaxLen), r2 \in StringsUpTo(MaxLen) :
       call2 = [prefix |-> p2, role |-> r2, called |-> FALSE, result |-> Identifier("")]

NextIdentify ==
  \/ Identify1
  \/ Identify2

SpecIdentify == InitIdentify /\ [][NextIdentify]_vars

(***************************************************************************)
(* What the declared constructs say about host names.                      *)
(***************************************************************************)
Range(seq) == {seq[i] : i \in 1..Len(seq)}

Declared(type) == {c \in Range(children) : c.type = type}

\* host names that have an alias record
RecordNames == {c.config.recordName : c \in Declared("ARecord")}

\* host names the certificate covers: its domain and its alternative names
CertificateNames ==
  UNION {{c.config.domainName} \cup Range(c.config.subjectAlternativeNames) :
         c \in Declared("DnsValidatedCertificate")}

\* alternative names of the certificate only
CertificateAlternativeNames ==
  UNION {Range(c.config.subjectAlternativeNames) :
         c \in Declared("DnsValidatedCertificate")}

\* aliases of the distribution
DistributionAliases ==
  UNION {Range(c.config.viewerCertificate.aliases) :
         c \in Declared("CloudFrontWebDistribution")}

(***************************************************************************)
(* C7.  identifyResource is collision-free and rejects empty input: two    *)
(* calls with the same non-empty (prefix, role) return the same            *)
(* identifier, two calls with distinct non-empty (prefix, role) pairs      *)
(* return different identifiers, and a call with an empty prefix or an     *)
(* empty role fails with InvalidInputError.                                *)
(***************************************************************************)
EmptyInput(call) == call.prefix = "" \/ call.role = ""

SameInput(a, b) == a.prefix = b.prefix /\ a.role = b.role

C8_WwwRecordOnlyIfIncluded ==
  /\ ~props.includeWWW => fullSiteDomain \notin RecordNames
  /\ pc = "done" =>
       /\ siteDomain \in RecordNames
       /\ (fullSiteDomain \in RecordNames) <=> props.includeWWW
       /\ Cardinality(Declared("ARecord")) = IF props.includeWWW THEN 2 ELSE 1

C8_Witness ==
  /\ pc = "done"
  /\ ~props.includeWWW
  /\ RecordNames = {siteDomain}

(***************************************************************************)
(* C10.  The three settings that depend on includeWWW agree.  Once the     *)
(* constructor has finished, www.<domainName> is an alternative name of    *)
(* the certificate, an alias of the distribution and the name of an alias  *)
(* record, each exactly when includeWWW is true; and at every point every  *)
(* host name that has an alias record is an alias of the distribution and  *)
(* is covered by the certificate.  The apex domain always is, once the     *)
(* certificate and the distribution are declared.                          *)
(***************************************************************************)
C10_WwwSettingsAgree ==
  /\ RecordNames \subseteq DistributionAliases
  /\ RecordNames \subseteq CertificateNames
  /\ pc = "done" =>
       /\ (fullSiteDomain \in CertificateAlternativeNames) <=> props.includeWWW
       /\ (fullSiteDomain \in DistributionAliases) <=> props.includeWWW
       /\ (fullSiteDomain \in RecordNames) <=> props.includeWWW
       /\ siteDomain \in CertificateNames
       /\ siteDomain \in DistributionAliases
       /\ siteDomain \in RecordNames

C10_Witness ==
  /\ pc = "done"
  /\ props.includeWWW
  /\ fullSiteDomain \in RecordNames
  /\ fullSiteDomain \in DistributionAliases
  /\ fullSiteDomain \in CertificateAlternativeNames

====
